---- MODULE Spec2Model ----
(***************************************************************************)
(* Model of the Heroku authenticator plugin (letsencrypt/plugins/heroku.py)*)
(* and of the Heroku application client (certbot_heroku/heroku_client.py). *)
(*                                                                         *)
(* Path strings are sequences of tokens: the token "/" is the separator,   *)
(* every other token is a run of non-separator characters.  The shell      *)
(* commands run in the working copy, so a path string resolves to the      *)
(* sequence of its names.                                                  *)
(***************************************************************************)
EXTENDS Integers, Sequences, FiniteSets, TLC

\* ------------------------------------------------------------------ bounds
MaxChalls == 2
MaxPolls == 1
MaxEndpoints == 3
MaxDomains == 3

\* ------------------------------------------------------- small value sets
Challs == {[token |-> "tokA", domain |-> "a.example"],
           [token |-> "tokB", domain |-> "b.example"]}
BranchNames == {"master", "feature"}
RemoteNames == {"heroku", "origin"}
NoBranch == "<detached>"
NoUser == "<unset>"
NoErr == [type |-> "none", msg |-> <<>>, returncode |-> 0]

SeqsUpTo(S, n) == UNION {[1..k -> S] : k \in 0..n}

\* ----------------------------------------------------------- os.path model
IsSlash(t) == t = "/"

RECURSIVE rfind(_)
\* str.rfind('/') + 1: the number of tokens up to and including the last "/"
rfind(p) == IF p = <<>> THEN 0
            ELSE IF IsSlash(p[Len(p)]) THEN Len(p)
            ELSE rfind(SubSeq(p, 1, Len(p) - 1))

RECURSIVE rstrip(_, _)
\* str.rstrip(chars): drop the trailing tokens that are in chars
rstrip(p, chars) == IF p # <<>> /\ p[Len(p)] \in chars
                    THEN rstrip(SubSeq(p, 1, Len(p) - 1), chars)
                    ELSE p

AllSlashes(p) == \A k \in 1..Len(p) : IsSlash(p[k])

\* posixpath.dirname
dirname(p) == LET head == SubSeq(p, 1, rfind(p))
              IN  IF head # <<>> /\ ~AllSlashes(head)
                  THEN rstrip(head, {"/"})
                  ELSE head

\* The names of a relative path string, as the kernel resolves it.
Resolve(p) == SelectSeq(p, LAMBDA t : ~IsSlash(t))

IsPrefix(a, b) == Len(a) <= Len(b) /\ SubSeq(b, 1, Len(a)) = a

\* challenges.HTTP01.URI_ROOT_PATH
URI_ROOT_PATH == <<".well-known", "/", "acme-challenge">>

\* ---------------------------------------------------------- the file system
\* A file system is a function from the resolved paths that exist to nodes.
Dir(o) == [kind |-> "dir", owner |-> o, content |-> <<>>]
File(o, c) == [kind |-> "file", owner |-> o, content |-> c]

\* os.path.exists; the working directory itself (the empty path) exists.
exists(fsys, p) == Resolve(p) = <<>> \/ Resolve(p) \in DOMAIN fsys

Restrict(f, S) == [x \in S |-> f[x]]

\* rmtree that removes nothing
rmtreeKeep(fsys, p) == fsys

\* shutil.rmtree
rmtree(fsys, p) ==
    Restrict(fsys, {q \in DOMAIN fsys : ~IsPrefix(Resolve(p), q)})

\* os.makedirs: the directory and every missing ancestor, owned by the caller
makedirs(fsys, p, uid) ==
    LET r == Resolve(p)
        missing == {SubSeq(r, 1, k) : k \in 1..Len(r)} \ DOMAIN fsys
    IN  [q \in DOMAIN fsys \cup missing |->
            IF q \in DOMAIN fsys THEN fsys[q] ELSE Dir(uid)]

\* open(file, "w") ... write(data): creates the file owned by the caller, or
\* truncates an existing one keeping its owner
writeFile(fsys, p, data, uid) ==
    LET r == Resolve(p)
        o == IF r \in DOMAIN fsys THEN fsys[r].owner ELSE uid
    IN  [q \in DOMAIN fsys \cup {r} |-> IF q = r THEN File(o, data) ELSE fsys[q]]

\* os.chown(directory) without the os.walk loop
chownTop(fsys, p, o) ==
    [q \in DOMAIN fsys |->
        IF q = Resolve(p) THEN [fsys[q] EXCEPT !.owner = o] ELSE fsys[q]]

\* os.chown(directory) followed by os.walk(directory) chowning every entry
chownTree(fsys, p, o) ==
    [q \in DOMAIN fsys |->
        IF IsPrefix(Resolve(p), q) THEN [fsys[q] EXCEPT !.owner = o] ELSE fsys[q]]

\* -------------------------------------------------------- the acme library
\* jose base64url encoding of the token: the file name of a challenge
encodeToken(t) == "b64(" \o t \o ")"
\* the key authorization of an http-01 challenge: token "." key thumbprint
validation(achall) == <<encodeToken(achall.token), ".", "thumbprint">>
\* KeyAuthorization.encode(): the bytes written to the challenge file
encodeValidation(v) == <<"bytes">> \o v

\* ------------------------------------------------------------------ state
VARIABLES
    root, remote, branch, dry_run,  \* the plugin's configuration
    euid, sudo_user,                \* os.getuid() and os.environ's SUDO_USER
    fs,                             \* the file system under the working copy
    git,                            \* the working copy and its remote
    pc,                             \* the position of perform
    achalls,                        \* perform's argument
    owner, directory, walk,         \* locals of perform and _chown_challenges
    i, polls, rc,                   \* loop index, polls of achalls[i], last exit code
    responses, err,                 \* perform's result: the list, or the exception
    trace,                          \* what this invocation of perform has done
    fs0, git0,                      \* fs and git when perform was called
    endpoints, domains,             \* the application's state on the platform
    uc, gd, api                     \* results of update_certificate and of
                                    \* get_domains, and the API calls of the last one

cfgvars == <<root, remote, branch, dry_run, euid, sudo_user>>
locals == <<owner, directory, walk, i, polls, rc, responses>>
appvars == <<endpoints, domains, uc, gd, api>>
authvars == <<fs, git, pc, achalls, owner, directory, walk, i, polls, rc,
              responses, err, trace, fs0, git0>>
vars == <<root, remote, branch, dry_run, euid, sudo_user, fs, git, pc, achalls,
          owner, directory, walk, i, polls, rc, responses, err, trace, fs0, git0,
          endpoints, domains, uc, gd, api>>

\* ------------------------------------------------------------- exceptions
PluginError(m) == [type |-> "PluginError", msg |-> m, returncode |-> 0]
CalledProcessError(code) ==
    [type |-> "CalledProcessError", msg |-> <<>>, returncode |-> code]
KeyError(k) == [type |-> "KeyError", msg |-> <<k>>, returncode |-> 0]
IndexError == [type |-> "IndexError", msg |-> <<>>, returncode |-> 0]

Event(o, a) == [op |-> o, arg |-> a]

RECURSIVE Join(_)
\* the text of a path string
Join(p) == IF p = <<>> THEN "" ELSE p[1] \o Join(Tail(p))

\* ------------------------------------------------------------ class Command
\* Command.resudoed: os.environ["SUDO_USER"] raises KeyError when the variable
\* is not set; otherwise the command is wrapped in sudo -u.
resudoed(arguments, env) ==
    IF env = NoUser
    THEN [raised |-> TRUE, argv |-> <<>>]
    ELSE [raised |-> FALSE, argv |-> <<"sudo", "-u", env>> \o arguments]

\* GitClient.git
gitCommand(args) == resudoed(<<"git">> \o args, sudo_user)

\* Command.run ignoring dry_run
runsCommandAlways(dry) == TRUE

\* Command.run: with dry_run the command is only logged
runsCommand(dry) == ~dry

\* ---------------------------------------------------------------- git model
\* A tree is [app: the version of the application's files,
\*            chall: the <<name, content>> pairs of the challenge directory].
Tree(a, c) == [app |-> a, chall |-> c]
\* the value of a ref that does not exist
NoRef == Tree(-1, {})

\* git symbolic-ref --short -q HEAD
gitSymbolicRef(g) ==
    IF g.checkedOut = NoBranch
    THEN [code |-> 1, out |-> <<>>]
    ELSE [code |-> 0, out |-> <<g.checkedOut, "\n">>]

\* git remote update that does not fail for an unknown remote
gitRemoteUpdateAny(g, r, fetched) ==
    [code |-> 0, git |-> g]

\* git remote update <remote>: fails for an unknown remote or a failed fetch;
\* a fetch sets the remote-tracking ref of every branch the remote has
gitRemoteUpdate(g, r, fetched) ==
    IF r \notin g.remotes \/ ~fetched
    THEN [code |-> 1, git |-> g]
    ELSE [code |-> 0,
          git |-> [g EXCEPT !.tracking = IF g.remoteTree = NoRef
                                         THEN g.tracking ELSE g.remoteTree]]

\* git diff --staged --quiet <remote>/<branch>
gitDiffStaged(g) ==
    IF g.tracking = NoRef THEN 128
    ELSE IF g.index = g.tracking THEN 0 ELSE 1

\* the <<name, content>> pairs of the files directly inside directory p
filesIn(fsys, p) ==
    {<<q[Len(q)], fsys[q].content>> :
        q \in {x \in DOMAIN fsys : /\ Len(x) = Len(Resolve(p)) + 1
                                   /\ IsPrefix(Resolve(p), x)
                                   /\ fsys[x].kind = "file"}}

\* git add <path>: exits 128 when the path does not exist or when another
\* git process holds index.lock
gitAdd(g, fsys, p, locked) ==
    IF ~exists(fsys, p) \/ locked
    THEN [code |-> 128, git |-> g]
    ELSE [code |-> 0, git |-> [g EXCEPT !.index.chall = filesIn(fsys, p)]]

\* git commit -m <message>: exits 1 when there is nothing to commit
gitCommit(g) ==
    IF g.index = g.head
    THEN [code |-> 1, git |-> g]
    ELSE [code |-> 0, git |-> [g EXCEPT !.head = g.index]]

\* git push <remote>
gitPush(g, accepted) ==
    IF ~accepted
    THEN [code |-> 1, git |-> g]
    ELSE [code |-> 0, git |-> [g EXCEPT !.remoteTree = g.head, !.tracking = g.head]]

\* GitClient.checked_out_branch: output.rstrip()
checked_out_branch(out) == Join(rstrip(out, {"\n", " "}))

\* is_up_to_date with exit code 1 taken for success
is_up_to_date_lax(code) ==
    IF code = 0 \/ code = 1 THEN [raised |-> FALSE, value |-> TRUE]
    ELSE [raised |-> TRUE, value |-> FALSE]

\* is_up_to_date with every failure of the diff taken for "not up to date"
is_up_to_date_swallow(code) ==
    [raised |-> FALSE, value |-> code = 0]

\* GitClient.is_up_to_date, given the exit code of the diff
is_up_to_date(code) ==
    IF code = 0 THEN [raised |-> FALSE, value |-> TRUE]
    ELSE IF code = 1 THEN [raised |-> FALSE, value |-> FALSE]
    ELSE [raised |-> TRUE, value |-> FALSE]

\* ------------------------------------------------- Authenticator.perform
Log(e) == trace' = Append(trace, e)
Raise(e) == pc' = "raised" /\ err' = e

\* The position after each step of perform that returned.
Preflight == {"preflight_exists", "preflight_branch", "preflight_remote",
              "preflight_sync"}
Stopped == {"idle", "done", "raised"}

\* perform(achalls) is called.
Perform(a) ==
    /\ pc \in Stopped
    /\ pc' = "preflight_exists"
    /\ achalls' = a
    /\ owner' = 0 /\ directory' = <<>> /\ walk' = <<>>
    /\ i' = 1 /\ polls' = 0 /\ rc' = 0
    /\ responses' = <<>> /\ err' = NoErr /\ trace' = <<>>
    /\ fs0' = fs /\ git0' = git
    /\ UNCHANGED <<cfgvars, appvars, fs, git>>

\* _preflight: os.path.exists(root)
PreflightExists ==
    /\ pc = "preflight_exists"
    /\ Log(Event("exists", Join(root)))
    /\ IF exists(fs, root)
       THEN pc' = "preflight_branch" /\ err' = err
       ELSE Raise(PluginError(<<"The '", Join(root), "' folder doesn't exist">>))
    /\ UNCHANGED <<cfgvars, appvars, fs, git, achalls, locals, fs0, git0>>

\* _preflight: the checked-out branch is the configured one
PreflightBranch ==
    /\ pc = "preflight_branch"
    /\ LET cmd == gitCommand(<<"symbolic-ref", "--short", "-q", "HEAD">>)
           res == gitSymbolicRef(git)
           current == checked_out_branch(res.out)
       IN  IF cmd.raised
           THEN Raise(KeyError("SUDO_USER")) /\ UNCHANGED <<trace, rc>>
           ELSE /\ Log(Event("exec", cmd.argv))
                /\ rc' = res.code
                /\ IF res.code # 0
                   THEN Raise(PluginError(
                            <<"Cannot identify a checked-out git branch">>))
                   ELSE IF current # branch
                   THEN Raise(PluginError(
                            <<"Working copy has '", current,
                              "' checked out, not '", branch, "'">>))
                   ELSE pc' = "preflight_remote" /\ err' = err
    /\ UNCHANGED <<cfgvars, appvars, fs, git, achalls, owner, directory, walk, i, polls,
                   responses, fs0, git0>>

\* a preflight that goes on to the synchronization check when the remote
\* update fails
PreflightRemoteTolerant ==
    /\ pc = "preflight_remote"
    /\ \E fetched \in BOOLEAN :
        LET cmd == gitCommand(<<"remote", "update", remote>>)
            res == gitRemoteUpdate(git, remote, fetched)
        IN  IF cmd.raised
            THEN Raise(KeyError("SUDO_USER")) /\ UNCHANGED <<trace, rc, git>>
            ELSE /\ Log(Event("exec", cmd.argv))
                 /\ rc' = res.code
                 /\ git' = res.git
                 /\ pc' = "preflight_sync" /\ err' = err
    /\ UNCHANGED <<cfgvars, appvars, fs, achalls, owner, directory, walk, i, polls,
                   responses, fs0, git0>>

\* _preflight: git remote update
PreflightRemote ==
    /\ pc = "preflight_remote"
    /\ \E fetched \in BOOLEAN :
        LET cmd == gitCommand(<<"remote", "update", remote>>)
            res == gitRemoteUpdate(git, remote, fetched)
        IN  IF cmd.raised
            THEN Raise(KeyError("SUDO_USER")) /\ UNCHANGED <<trace, rc, git>>
            ELSE /\ Log(Event("exec", cmd.argv))
                 /\ rc' = res.code
                 /\ git' = res.git
                 /\ IF res.code # 0
                    THEN Raise(PluginError(
                             <<"The '", remote, "' git remote is not configured ",
                               "(use --heroku-remote to set a different one)">>))
                    ELSE pc' = "preflight_sync" /\ err' = err
    /\ UNCHANGED <<cfgvars, appvars, fs, achalls, owner, directory, walk, i, polls,
                   responses, fs0, git0>>

\* _preflight: is_up_to_date(remote, branch)
PreflightSync ==
    /\ pc = "preflight_sync"
    /\ LET cmd == gitCommand(<<"diff", "--staged", "--quiet",
                               remote \o "/" \o branch>>)
           code == gitDiffStaged(git)
           res == is_up_to_date(code)
       IN  IF cmd.raised
           THEN Raise(KeyError("SUDO_USER")) /\ UNCHANGED <<trace, rc>>
           ELSE /\ Log(Event("exec", cmd.argv))
                /\ rc' = code
                /\ IF res.raised
                   THEN Raise(CalledProcessError(code))
                   ELSE IF ~res.value
                   THEN Raise(PluginError(
                            <<"The working copy is out of date with the '",
                              remote, "' remote">>))
                   ELSE pc' = "setup" /\ err' = err
    /\ UNCHANGED <<cfgvars, appvars, fs, git, achalls, owner, directory, walk, i, polls,
                   responses, fs0, git0>>

\* perform: owner = os.stat(root).st_uid; directory = root + "/" + URI_ROOT_PATH
Setup ==
    /\ pc = "setup"
    /\ owner' = fs[Resolve(root)].owner
    /\ Log(Event("stat", Join(root)))
    /\ IF achalls = <<>>
       THEN Raise(IndexError) /\ UNCHANGED <<directory, walk>>
       ELSE /\ directory' = root \o <<"/">> \o URI_ROOT_PATH
            /\ walk' = directory'
            /\ pc' = "clear" /\ err' = err
    /\ UNCHANGED <<cfgvars, appvars, fs, git, achalls, i, polls, rc, responses, fs0, git0>>

\* _clear_directory
ClearDirectory ==
    /\ pc = "clear"
    /\ IF exists(fs, directory)
       THEN fs' = rmtree(fs, directory) /\ Log(Event("rmtree", Join(directory)))
       ELSE UNCHANGED <<fs, trace>>
    /\ pc' = "write"
    /\ i' = 1
    /\ UNCHANGED <<cfgvars, appvars, git, achalls, owner, directory, walk, polls, rc,
                   responses, err, fs0, git0>>

\* the path of the file _write_challenge writes for achall
challengeFile(dir, achall) == dir \o <<"/", encodeToken(achall.token)>>

\* a write loop that stops after the first challenge
WriteChallengeOnce ==
    /\ pc = "write"
    /\ LET achall == achalls[i]
           made == IF exists(fs, directory) THEN fs
                   ELSE makedirs(fs, directory, euid)
           file == challengeFile(directory, achall)
       IN  /\ fs' = writeFile(made, file, encodeValidation(validation(achall)), euid)
           /\ Log(Event("write", Join(file)))
    /\ i' = i + 1
    /\ pc' = "chown_walk"
    /\ UNCHANGED <<cfgvars, appvars, git, achalls, owner, directory, walk, polls,
                   rc, responses, err, fs0, git0>>

\* _write_challenge(achalls[i]): one iteration of the first loop of perform
WriteChallenge ==
    /\ pc = "write"
    /\ LET achall == achalls[i]
           made == IF exists(fs, directory) THEN fs
                   ELSE makedirs(fs, directory, euid)
           file == challengeFile(directory, achall)
       IN  /\ fs' = writeFile(made, file, encodeValidation(validation(achall)), euid)
           /\ Log(Event("write", Join(file)))
    /\ i' = i + 1
    /\ pc' = IF i = Len(achalls) THEN "chown_walk" ELSE "write"
    /\ UNCHANGED <<cfgvars, appvars, git, achalls, owner, directory, walk, polls, rc,
                   responses, err, fs0, git0>>

\* _chown_challenges: one test of the while loop, and its body
ChownWalk ==
    /\ pc = "chown_walk"
    /\ IF root # dirname(walk)
       THEN walk' = dirname(walk) /\ pc' = pc
       ELSE walk' = walk /\ pc' = "chown"
    /\ UNCHANGED <<cfgvars, appvars, fs, git, achalls, owner, directory, i, polls, rc,
                   responses, err, trace, fs0, git0>>

\* _chown_challenges: os.chown(directory) and the os.walk loop
ChownChallenges ==
    /\ pc = "chown"
    /\ fs' = chownTree(fs, walk, owner)
    /\ Log(Event("chown", Join(walk)))
    /\ pc' = "stage"
    /\ UNCHANGED <<cfgvars, appvars, git, achalls, locals, err, fs0, git0>>

\* _commit: GitClient.stage_file(directory)
StageFile ==
    /\ pc = "stage"
    /\ \E locked \in BOOLEAN :
        LET cmd == gitCommand(<<"add", Join(directory)>>)
            res == gitAdd(git, fs, directory, locked)
        IN  IF cmd.raised
            THEN Raise(KeyError("SUDO_USER")) /\ UNCHANGED <<trace, rc, git>>
            ELSE IF ~runsCommand(dry_run)
            THEN /\ Log(Event("would run", cmd.argv))
                 /\ pc' = "commit"
                 /\ UNCHANGED <<rc, git, err>>
            ELSE /\ Log(Event("exec", cmd.argv))
                 /\ rc' = res.code
                 /\ git' = res.git
                 /\ IF res.code # 0
                    THEN Raise(CalledProcessError(res.code))
                    ELSE pc' = "commit" /\ err' = err
    /\ UNCHANGED <<cfgvars, appvars, fs, achalls, owner, directory, walk, i, polls,
                   responses, fs0, git0>>

\* a commit step that goes on to the push when git commit fails
CommitTolerant ==
    /\ pc = "commit"
    /\ LET cmd == gitCommand(<<"commit", "-m",
                               "Challenges for Let's Encrypt certificate">>)
           res == gitCommit(git)
       IN  IF cmd.raised
           THEN Raise(KeyError("SUDO_USER")) /\ UNCHANGED <<trace, rc, git>>
           ELSE IF ~runsCommand(dry_run)
           THEN /\ Log(Event("would run", cmd.argv))
                /\ pc' = "push"
                /\ UNCHANGED <<rc, git, err>>
           ELSE /\ Log(Event("exec", cmd.argv))
                /\ rc' = res.code
                /\ git' = res.git
                /\ pc' = "push" /\ err' = err
    /\ UNCHANGED <<cfgvars, appvars, fs, achalls, owner, directory, walk, i, polls,
                   responses, fs0, git0>>

\* _commit: GitClient.commit(message); config.staging only adds
\* " (testing only)" to the text of the message
Commit ==
    /\ pc = "commit"
    /\ LET cmd == gitCommand(<<"commit", "-m",
                               "Challenges for Let's Encrypt certificate">>)
           res == gitCommit(git)
       IN  IF cmd.raised
           THEN Raise(KeyError("SUDO_USER")) /\ UNCHANGED <<trace, rc, git>>
           ELSE IF ~runsCommand(dry_run)
           THEN /\ Log(Event("would run", cmd.argv))
                /\ pc' = "push"
                /\ UNCHANGED <<rc, git, err>>
           ELSE /\ Log(Event("exec", cmd.argv))
                /\ rc' = res.code
                /\ git' = res.git
                /\ IF res.code # 0
                   THEN Raise(CalledProcessError(res.code))
                   ELSE pc' = "push" /\ err' = err
    /\ UNCHANGED <<cfgvars, appvars, fs, achalls, owner, directory, walk, i, polls,
                   responses, fs0, git0>>

\* _deploy: GitClient.push_to_remote(remote)
Deploy ==
    /\ pc = "push"
    /\ \E accepted \in BOOLEAN :
        LET cmd == gitCommand(<<"push", remote>>)
            res == gitPush(git, accepted)
        IN  IF cmd.raised
            THEN Raise(KeyError("SUDO_USER")) /\ UNCHANGED <<trace, rc, git, i, polls>>
            ELSE IF ~runsCommand(dry_run)
            THEN /\ Log(Event("would run", cmd.argv))
                 /\ pc' = "wait" /\ i' = 1 /\ polls' = 0
                 /\ UNCHANGED <<rc, git, err>>
            ELSE /\ Log(Event("exec", cmd.argv))
                 /\ rc' = res.code
                 /\ git' = res.git
                 /\ IF res.code # 0
                    THEN Raise(CalledProcessError(res.code)) /\ UNCHANGED <<i, polls>>
                    ELSE pc' = "wait" /\ i' = 1 /\ polls' = 0 /\ err' = err
    /\ UNCHANGED <<cfgvars, appvars, fs, achalls, owner, directory, walk, responses,
                   fs0, git0>>

\* response.simple_verify: the oracle fetches the challenge file from the
\* deployed application; it can succeed only if the remote serves the file
\* (and may still fail while the application restarts).
canVerify(g, achall) ==
    <<encodeToken(achall.token), encodeValidation(validation(achall))>>
        \in g.remoteTree.chall

\* achall.response_and_validation()[0]
response(achall) == [key_authorization |-> validation(achall)]

\* the second loop of perform advances to the next challenge, or returns
NextChallenge ==
    /\ responses' = Append(responses, response(achalls[i]))
    /\ i' = i + 1
    /\ polls' = 0
    /\ pc' = IF i = Len(achalls) THEN "done" ELSE "wait"

\* a wait that gives up after MaxPolls failed polls of a challenge
PollCapped ==
    /\ pc = "wait"
    /\ \E verified \in BOOLEAN :
        /\ verified => canVerify(git, achalls[i])
        /\ IF verified
           THEN /\ NextChallenge
                /\ Log(Event("poll", <<i, TRUE>>))
                /\ err' = err
           ELSE /\ polls' = IF polls < MaxPolls THEN polls + 1 ELSE polls
                /\ Log(Event("poll", <<i, FALSE>>))
                /\ IF polls < MaxPolls
                   THEN pc' = pc /\ err' = err
                   ELSE Raise(PluginError("timed out"))
                /\ UNCHANGED <<i, responses>>
    /\ UNCHANGED <<cfgvars, appvars, fs, git, achalls, owner, directory, walk, rc,
                   fs0, git0>>

\* _wait_for_challenge_validation: one test of the while loop; a failed poll
\* is followed by time.sleep(10).  The log keeps the first MaxPolls failed
\* polls of a challenge.
Poll ==
    /\ pc = "wait"
    /\ \E verified \in BOOLEAN :
        /\ verified => canVerify(git, achalls[i])
        /\ IF verified
           THEN /\ NextChallenge
                /\ Log(Event("poll", <<i, TRUE>>))
           ELSE /\ polls' = IF polls < MaxPolls THEN polls + 1 ELSE polls
                /\ trace' = IF polls < MaxPolls
                            THEN Append(trace, Event("poll", <<i, FALSE>>))
                            ELSE trace
                /\ UNCHANGED <<pc, i, responses>>
    /\ UNCHANGED <<cfgvars, appvars, fs, git, achalls, owner, directory, walk, rc, err,
                   fs0, git0>>

\* a wait whose try block does not catch KeyboardInterrupt
InterruptRaises ==
    /\ pc = "wait"
    /\ Raise([type |-> "KeyboardInterrupt", msg |-> "", returncode |-> 0])
    /\ trace' = Append(trace, Event("interrupt", <<i, FALSE>>))
    /\ UNCHANGED <<cfgvars, appvars, fs, git, achalls, owner, directory, walk, i, polls,
                   rc, responses, fs0, git0>>

\* a wait in which the interrupt ends the whole second loop of perform
InterruptEndsAll ==
    /\ pc = "wait"
    /\ responses' = Append(responses, response(achalls[i]))
    /\ i' = Len(achalls) + 1
    /\ polls' = 0
    /\ pc' = "done"
    /\ Log(Event("interrupt", <<i, FALSE>>))
    /\ UNCHANGED <<cfgvars, appvars, fs, git, achalls, owner, directory, walk, rc, err,
                   fs0, git0>>

\* _wait_for_challenge_validation: KeyboardInterrupt inside the try block
Interrupt ==
    /\ pc = "wait"
    /\ NextChallenge
    /\ Log(Event("interrupt", <<i, FALSE>>))
    /\ UNCHANGED <<cfgvars, appvars, fs, git, achalls, owner, directory, walk, rc, err,
                   fs0, git0>>

\* ------------------------------------------------------------ class HerokuApp
HerokuTail == <<"h", "e", "r", "o", "k", "u", "a", "p", "p", ".", "c", "o", "m">>
\* the literal ".herokuapp.com"
DefaultSuffix == <<".">> \o HerokuTail

\* a substring test in place of the suffix test
endswithAnywhere(h, suffix) ==
    \E k \in 1..Len(h) :
        k + Len(suffix) - 1 <= Len(h) /\ SubSeq(h, k, k + Len(suffix) - 1) = suffix

\* str.endswith
endswith(h, suffix) ==
    /\ Len(h) >= Len(suffix)
    /\ SubSeq(h, Len(h) - Len(suffix) + 1, Len(h)) = suffix

\* the predicate of the filter of get_domains
isCustom(d) == ~endswith(d.hostname, DefaultSuffix)

RECURSIVE map_hostname(_)
\* map(lambda d: d.hostname, ...)
map_hostname(ds) ==
    IF ds = <<>> THEN <<>> ELSE <<ds[1].hostname>> \o map_hostname(Tail(ds))

\* HerokuApp.get_domains, given the result of self._api_app.domains()
get_domains(domain_objs) == map_hostname(SelectSeq(domain_objs, isCustom))

\* the exception object raised for an endpoint count other than one
UncertainSSLEndpointError(n) ==
    [type |-> "UncertainSSLEndpointError", attrs |-> [num_endpoints |-> n]]
NoResult == [type |-> "none", attrs |-> [num_endpoints |-> 0]]
Returned == [type |-> "returned", attrs |-> [num_endpoints |-> 1]]
HTTPError == [type |-> "HTTPError", attrs |-> [num_endpoints |-> 1]]

\* UncertainSSLEndpointError.__str__: the attribute read is num_endpoint,
\* which __init__ never sets, so evaluating the expression raises; were it
\* set, str + int would raise TypeError, and the method has no return.
UncertainSSLEndpointError_str(e) ==
    IF "num_endpoint" \notin DOMAIN e.attrs
    THEN [raised |-> "AttributeError", value |-> ""]
    ELSE [raised |-> "TypeError", value |-> ""]

\* SSLEndpoint.update(certificate_chain, private_key)
update(ssl, certificate_chain, private_key) ==
    [ssl EXCEPT !.certificate_chain = certificate_chain,
                !.private_key = private_key]

\* the count test with only the empty list rejected
anyEndpoint(n) == n >= 1

\* whether update_certificate goes on to the endpoint for a count of n
singleEndpoint(n) == n = 1

\* HerokuApp.update_certificate(key, certificate); accepted tells whether the
\* platform answers the PATCH with a 2xx status
update_certificate(key, certificate, accepted) ==
    LET ssls == endpoints
        num_endpoints == Len(ssls)
        listed == <<Event("GET", "ssl-endpoints")>>
    IN  IF ~singleEndpoint(num_endpoints)
        THEN /\ uc' = UncertainSSLEndpointError(num_endpoints)
             /\ api' = listed
             /\ endpoints' = endpoints
        ELSE IF ~runsCommand(dry_run)
        THEN /\ uc' = Returned
             /\ api' = Append(listed, Event("would replace", ssls[1].name))
             /\ endpoints' = endpoints
        ELSE /\ api' = Append(listed, Event("PATCH", ssls[1].name))
             /\ IF accepted
                THEN /\ endpoints' = [endpoints EXCEPT
                                        ![1] = update(ssls[1], certificate, key)]
                     /\ uc' = Returned
                ELSE endpoints' = endpoints /\ uc' = HTTPError

UpdateCertificate ==
    /\ pc \in Stopped
    /\ \E accepted \in BOOLEAN :
        update_certificate("new key", "new chain", accepted)
    /\ UNCHANGED <<cfgvars, authvars, domains, gd>>

GetDomains ==
    /\ pc \in Stopped
    /\ gd' = get_domains(domains)
    /\ api' = <<Event("GET", "domains")>>
    /\ UNCHANGED <<cfgvars, authvars, endpoints, domains, uc>>

\* ------------------------------------------------------------ initial states
Public == <<"public">>
WellKnown == <<"public", ".well-known">>
AcmeChallenge == <<"public", ".well-known", "acme-challenge">>
StaleContent == <<"bytes", "stale">>

\* a working copy without the root directory
FsNoRoot(u) == (<<"app.py">> :> File(u, <<"app">>))
\* the root directory without a challenge directory
FsFresh(u) == FsNoRoot(u) @@ (Public :> Dir(u))
                          @@ (<<"public", "index.html">> :> File(u, <<"html">>))
\* a challenge directory left by an earlier run, and a sibling of it, owned by v
FsUsed(u, v) ==
    FsFresh(u) @@ (WellKnown :> Dir(v)) @@ (AcmeChallenge :> Dir(v))
               @@ (<<"public", ".well-known", "security.txt">> :> File(v, <<"txt">>))
               @@ (Append(AcmeChallenge, encodeToken("tokOld")) :> File(v, StaleContent))
               @@ (Append(AcmeChallenge, encodeToken("tokA")) :> File(v, StaleContent))

\* The process can change everything under the root: it runs as root (and
\* then earlier runs left root-owned files in a tree of the invoking user),
\* or it owns the tree.
InitialFs(uid) ==
    IF uid = 0
    THEN {FsNoRoot(1000), FsFresh(1000), FsUsed(1000, 0)}
    ELSE {FsNoRoot(uid), FsFresh(uid), FsUsed(uid, uid)}

\* the tree of the application before any challenge is committed
BaseTree == Tree(0, {})

GitState(c, r, x, t, m) ==
    [checkedOut |-> c, remotes |-> r, index |-> x, head |-> BaseTree,
     tracking |-> t, remoteTree |-> m]

\* The working copies perform starts from: synchronized with the remote
\* (with a current, a missing or a stale remote-tracking ref), with a staged
\* change the remote does not have, with a remote that has no such branch
\* yet, on another branch or on none, without the remote, and with
\* everything wrong at once.
InitialGit ==
    {GitState("master", {"heroku"}, BaseTree, BaseTree, BaseTree),
     GitState("master", {"heroku"}, BaseTree, NoRef, BaseTree),
     GitState("master", {"heroku"}, BaseTree, Tree(1, {}), BaseTree),
     GitState("master", {"heroku"}, Tree(1, {}), BaseTree, BaseTree),
     GitState("master", {"heroku"}, Tree(1, {}), Tree(1, {}), BaseTree),
     GitState("master", {"heroku"}, BaseTree, NoRef, NoRef),
     GitState("feature", {"heroku"}, BaseTree, BaseTree, BaseTree),
     GitState(NoBranch, {"heroku"}, BaseTree, BaseTree, BaseTree),
     GitState("master", {}, BaseTree, NoRef, NoRef),
     GitState("feature", {}, Tree(1, {}), NoRef, NoRef)}

Endpoint(k) == [name |-> "endpoint-" \o ToString(k),
                certificate_chain |-> "old chain",
                private_key |-> "old key"]
EndpointLists == {[k \in 1..n |-> Endpoint(k)] : n \in 0..MaxEndpoints}

Hostnames == {<<"a", ".", "c", "o">>,
              <<"x">> \o DefaultSuffix,
              <<"y", ".", "x">> \o DefaultSuffix,
              HerokuTail,
              <<"x">> \o DefaultSuffix \o <<".", "c", "o">>}
\* the platform binds a hostname to an application at most once
DomainLists ==
    {[k \in 1..Len(hs) |-> [hostname |-> hs[k]]] :
        hs \in {s \in SeqsUpTo(Hostnames, MaxDomains) :
                   \A j, k \in 1..Len(s) : j # k => s[j] # s[k]}}

InitAuth ==
    /\ pc = "idle"
    /\ achalls = <<>>
    /\ owner = 0 /\ directory = <<>> /\ walk = <<>>
    /\ i = 1 /\ polls = 0 /\ rc = 0
    /\ responses = <<>> /\ err = NoErr /\ trace = <<>>
    /\ fs0 = fs /\ git0 = git

InitApp ==
    /\ uc = NoResult
    /\ gd = <<>>
    /\ api = <<>>

Init ==
    /\ root \in {<<"public">>, <<"public", "/">>}
    /\ remote \in RemoteNames
    /\ branch = "master"
    /\ dry_run \in BOOLEAN
    /\ euid \in {0, 1000}
    /\ sudo_user \in {NoUser, "alice"}
    /\ fs \in InitialFs(euid)
    /\ git \in InitialGit
    /\ endpoints = <<Endpoint(1)>>
    /\ domains = <<>>
    /\ InitAuth
    /\ InitApp

Next ==
    \/ \E a \in SeqsUpTo(Challs, MaxChalls) : Perform(a)
    \/ PreflightExists
    \/ PreflightBranch
    \/ PreflightRemote
    \/ PreflightSync
    \/ Setup
    \/ ClearDirectory
    \/ WriteChallenge
    \/ ChownWalk
    \/ ChownChallenges
    \/ StageFile
    \/ Commit
    \/ Deploy
    \/ Poll
    \/ Interrupt
    \/ UpdateCertificate

Spec == Init /\ [][Next]_vars

\* The wait of a challenge under the assumption that the oracle eventually
\* reports success or the operator eventually interrupts: a step that ends
\* the wait is possible in every state of the loop, and is eventually taken.
WaitEnds == Interrupt \/ (Poll /\ i' = i + 1)
SpecWait == Init /\ [][Next]_vars /\ WF_vars(WaitEnds)

\* The application client alone, for every list of domains and of endpoints.
InitClient ==
    /\ root = <<"public">>
    /\ remote = "heroku"
    /\ branch = "master"
    /\ dry_run \in BOOLEAN
    /\ euid = 1000
    /\ sudo_user = NoUser
    /\ fs = FsFresh(1000)
    /\ git = [checkedOut |-> "master", remotes |-> {"heroku"}, index |-> BaseTree,
              head |-> BaseTree, tracking |-> BaseTree, remoteTree |-> BaseTree]
    /\ endpoints \in EndpointLists
    /\ domains \in DomainLists
    /\ InitAuth
    /\ InitApp

NextClient ==
    \/ UpdateCertificate
    \/ GetDomains

SpecClient == InitClient /\ [][NextClient]_vars

\* ================================================================== claims
\* the git subcommand of an argument vector
Subcommand(argv) ==
    LET k == CHOOSE j \in 1..Len(argv) : argv[j] = "git" IN argv[k + 1]

IsGit(e, ops, sub) == e.op \in ops /\ Subcommand(e.arg) = sub
\* a git subprocess with this subcommand was executed in this invocation
Ran(sub) == \E k \in 1..Len(trace) : IsGit(trace[k], {"exec"}, sub)
\* perform reached the call of the step, executed or only logged
Stepped(sub) == \E k \in 1..Len(trace) : IsGit(trace[k], {"exec", "would run"}, sub)
Did(o) == \E k \in 1..Len(trace) : trace[k].op = o
Names(e, word) == \E k \in 1..Len(e.msg) : e.msg[k] = word

\* the ref the synchronization check compares with, once the remote is fetched
FetchedRef(g) == IF g.remoteTree = NoRef THEN g.tracking ELSE g.remoteTree

\* a precondition of perform does not hold when it is called
PreconditionFails ==
    \/ ~exists(fs0, root)
    \/ git0.checkedOut = NoBranch
    \/ git0.checkedOut # branch
    \/ remote \notin git0.remotes
    \/ git0.index # FetchedRef(git0)

\* preflight has returned in this invocation
PreflightPassed == pc = "setup" \/ Did("stat")

\* nothing of the write phase or of the commit-and-push step has happened
NothingWritten ==
    /\ ~Did("rmtree") /\ ~Did("write") /\ ~Did("chown")
    /\ ~Ran("add") /\ ~Ran("commit") /\ ~Ran("push")
    /\ fs = fs0
    /\ git.index = git0.index /\ git.head = git0.head
    /\ git.remoteTree = git0.remoteTree

\* C1: when preflight fails (a precondition does not hold at the call, or a
\* preflight step raises), perform gets no further than preflight, ends by
\* raising, and has neither removed the challenge directory, written a
\* file, changed an owner nor run git add, commit or push.
C1_PreflightFailureWritesNothing ==
    /\ (pc # "idle" /\ PreconditionFails) =>
            /\ pc \in Preflight \cup {"raised"}
            /\ ~PreflightPassed
    /\ (pc \in Preflight \/ (pc = "raised" /\ ~PreflightPassed)) => NothingWritten
    /\ pc = "raised" => err.type # "none"

C1_Witness ==
    /\ pc = "raised"
    /\ git0.index # FetchedRef(git0)
    /\ Ran("diff")
    /\ err.type = "PluginError"

\* the endpoint update call was issued by the last update_certificate
Patched == \E k \in 1..Len(api) : api[k].op = "PATCH"
Listed == api # <<>> /\ api[1] = Event("GET", "ssl-endpoints")

\* C2: update_certificate issues the update call only for exactly one
\* endpoint; for a count of 0 or of 2 and more it raises, and every
\* endpoint keeps its certificate chain and private key.
C2_UpdateOnlySingleEndpoint ==
    /\ Patched => Len(endpoints) = 1
    /\ Len(endpoints) # 1 =>
            /\ \A k \in 1..Len(endpoints) : endpoints[k] = Endpoint(k)
            /\ Listed => uc.type = "UncertainSSLEndpointError"

C2_Witness ==
    /\ Listed
    /\ Len(endpoints) >= 2
    /\ uc.type = "UncertainSSLEndpointError"

\* C3: in dry-run mode no git add, commit or push is executed and no endpoint
\* update is issued, while the branch query, the remote update and the
\* up-to-date check of a preflight that returned, and the endpoint
\* enumeration of update_certificate, were executed.
C3_DryRunNoWriteCommands ==
    dry_run =>
        /\ ~Ran("add") /\ ~Ran("commit") /\ ~Ran("push")
        /\ ~Patched
        /\ PreflightPassed => Ran("symbolic-ref") /\ Ran("remote") /\ Ran("diff")
        /\ uc.type # "none" => Listed

C3_Witness ==
    /\ dry_run
    /\ pc = "done"
    /\ Stepped("push")
    /\ uc.type = "returned"

\* C4 (as claimed): in dry-run mode perform leaves the file system, the
\* index, the history and the remote as they were when it was called.
C4_DryRunLeavesFilesystem ==
    dry_run =>
        /\ fs = fs0
        /\ git.index = git0.index /\ git.head = git0.head
        /\ git.remoteTree = git0.remoteTree

\* the positions of the events of the log
WritePositions == {k \in 1..Len(trace) : trace[k].op = "write"}
StepPositions(sub) ==
    {k \in 1..Len(trace) : IsGit(trace[k], {"exec", "would run"}, sub)}
PollPositions == {k \in 1..Len(trace) : trace[k].op \in {"poll", "interrupt"}}
Before(A, B) == \A a \in A, b \in B : a < b

\* C5: within one invocation every challenge file is written before the
\* commit, the stage and the commit come before the push, and the oracle is
\* polled only after the push step has returned.
C5_StepsSequential ==
    /\ Before(WritePositions, StepPositions("add"))
    /\ Before(WritePositions, StepPositions("commit"))
    /\ StepPositions("commit") # {} => Cardinality(WritePositions) = Len(achalls)
    /\ Before(StepPositions("add"), StepPositions("commit"))
    /\ Before(StepPositions("commit"), StepPositions("push"))
    /\ StepPositions("push") # {} =>
            StepPositions("add") # {} /\ StepPositions("commit") # {}
    /\ Before(StepPositions("push"), PollPositions)
    /\ PollPositions # {} =>
            /\ StepPositions("push") # {}
            /\ pc \in {"wait", "done"}
    /\ pc \in {"wait", "done"} => StepPositions("push") # {}

C5_Witness ==
    /\ pc = "done"
    /\ Len(achalls) = 2
    /\ Ran("push")
    /\ \E k \in PollPositions : trace[k] = Event("poll", <<2, TRUE>>)

\* the entries below the challenge directory
Below(fsys, p) == {q \in DOMAIN fsys : IsPrefix(Resolve(p), q) /\ q # Resolve(p)}
\* the write phase of this invocation is over
WritePhaseOver == pc \in {"chown_walk", "chown", "stage", "commit", "push",
                          "wait", "done"}

\* C6: after the write phase the challenge directory holds, for every input
\* challenge, the file named by its token whose content is its encoded
\* validation, and nothing else, whatever the directory held before.
C6_ChallengeDirectoryExact ==
    WritePhaseOver =>
        /\ Below(fs, directory) =
              {Append(Resolve(directory), encodeToken(achalls[k].token)) :
                  k \in 1..Len(achalls)}
        /\ \A k \in 1..Len(achalls) :
              LET f == fs[Append(Resolve(directory), encodeToken(achalls[k].token))]
              IN  /\ f.kind = "file"
                  /\ f.content = <<"bytes", encodeToken(achalls[k].token), ".",
                                   "thumbprint">>

C6_Witness ==
    /\ pc = "chown_walk"
    /\ Below(fs0, directory) # {}
    /\ Len(achalls) = 2
    /\ achalls[1] # achalls[2]

\* the error _preflight raises for a remote that cannot be updated
RemoteError(r) ==
    PluginError(<<"The '", r, "' git remote is not configured ",
                  "(use --heroku-remote to set a different one)">>)

\* C7 (as claimed): for a remote that is not configured perform fails in
\* preflight with an error that names the remote, and attempts no push.
C7_UnknownRemoteNamed ==
    (pc # "idle" /\ remote \notin git0.remotes) =>
        /\ pc \in Preflight \cup {"raised"}
        /\ pc = "raised" => Names(err, remote)
        /\ ~Stepped("push")

\* C7 (amended): for a remote that is not configured perform fails in
\* preflight and attempts no push; the error names the remote whenever
\* preflight got as far as the remote update, that is, when the root
\* directory exists and the branch query reported the configured branch.
C7_UnknownRemoteFailsPreflight ==
    (pc # "idle" /\ remote \notin git0.remotes) =>
        /\ pc \in Preflight \cup {"raised"}
        /\ ~PreflightPassed
        /\ ~Stepped("push")
        /\ (pc = "raised" /\ Ran("remote")) =>
                err = RemoteError(remote) /\ Names(err, remote)
        /\ (pc = "raised" /\ exists(fs0, root) /\ Ran("symbolic-ref")
                /\ git0.checkedOut = branch) => Ran("remote")

C7_Witness ==
    /\ pc = "raised"
    /\ remote \notin git0.remotes
    /\ Ran("remote")
    /\ Names(err, remote)

\* the last thing this invocation did was the staged-diff check
DiffJustRan ==
    /\ trace # <<>>
    /\ IsGit(trace[Len(trace)], {"exec"}, "diff")

\* C8: is_up_to_date returns true iff the staged diff exits 0 (preflight
\* returns), false iff it exits 1 (perform raises the error that names the
\* remote), and propagates the failure of every other exit code.
C8_UpToDateByExitCode ==
    DiffJustRan =>
        /\ rc = 0 <=> pc = "setup"
        /\ rc = 1 <=>
              /\ pc = "raised"
              /\ err = PluginError(<<"The working copy is out of date with the '",
                                     remote, "' remote">>)
        /\ rc \notin {0, 1} <=> (pc = "raised" /\ err.type = "CalledProcessError")
        /\ err.type = "CalledProcessError" => err.returncode = rc
        /\ pc \in {"setup", "raised"}
        /\ rc = gitDiffStaged(git)

C8_Witness ==
    /\ DiffJustRan
    /\ rc = 1
    /\ pc = "raised"
    /\ Names(err, remote)

\* C9 (as claimed): the error raised for an endpoint count n other than 1
\* has the message "The application has n endpoints, not 1."
C9_MessageReportsCount ==
    uc.type = "UncertainSSLEndpointError" =>
        UncertainSSLEndpointError_str(uc) =
            [raised |-> "none",
             value |-> "The application has "
                          \o ToString(uc.attrs.num_endpoints)
                          \o " endpoints, not 1."]

\* the number of times h occurs in the list s
Occurrences(s, h) == Cardinality({k \in 1..Len(s) : s[k] = h})
Bound(h) == \E k \in 1..Len(domains) : domains[k].hostname = h
\* h is some text followed by ".herokuapp.com"
HasDefaultSuffix(h) == \E k \in 0..Len(h) : SubSeq(h, k + 1, Len(h)) = DefaultSuffix

\* C10: get_domains returns every bound hostname that does not end with
\* ".herokuapp.com" exactly once, and no hostname that ends with it (nor one
\* that is not bound).
C10_CustomDomainsExactlyOnce ==
    api = <<Event("GET", "domains")>> =>
        \A h \in Hostnames :
            Occurrences(gd, h) = IF Bound(h) /\ ~HasDefaultSuffix(h) THEN 1 ELSE 0

C10_Witness ==
    /\ api = <<Event("GET", "domains")>>
    /\ Len(domains) = 3
    /\ Len(gd) = 2
    /\ \E k \in 1..Len(gd) : gd[k] = <<"x">> \o DefaultSuffix \o <<".", "c", "o">>

\* ------------------------------------------------------------ C11 .. C13
\* the challenges whose wait was ended by KeyboardInterrupt in this invocation
Interrupted == {trace[k].arg[1] : k \in {j \in DOMAIN trace : trace[j].op = "interrupt"}}
\* the response perform owes to its k-th challenge
Owed(k) == [key_authorization |->
               <<"b64(" \o achalls[k].token \o ")", ".", "thumbprint">>]

\* C11: a KeyboardInterrupt while a challenge is polled ends that wait
\* without raising: perform is not aborted, no error is recorded, and the
\* response of the interrupted challenge is in the list perform returns.
C11_InterruptEndsWaitQuietly ==
    \A k \in Interrupted :
        /\ pc \in {"wait", "done"}
        /\ err = NoErr
        /\ k <= Len(responses)
        /\ responses[k] = Owed(k)

\* an invocation that returned although the wait of its first challenge was
\* interrupted before any poll succeeded
C11_Witness ==
    /\ pc = "done"
    /\ 1 \in Interrupted
    /\ ~\E k \in DOMAIN trace : trace[k] = Event("poll", <<1, TRUE>>)
    /\ Len(responses) = Len(achalls)

\* the positions of the log at which the wait of challenge k was touched
WaitPositions(k) ==
    {j \in DOMAIN trace : trace[j].op \in {"poll", "interrupt"} /\ trace[j].arg[1] = k}
\* the positions at which the wait of challenge k ended
EndPositions(k) ==
    {j \in WaitPositions(k) : trace[j].op = "interrupt" \/ trace[j].arg[2]}

\* C13: the waits run one after another in input order, an interrupt ends
\* only the wait of the current challenge, and the returned list holds
\* exactly one response per input challenge, in input order.
C13_WaitsSequentialOneResponseEach ==
    /\ \A k \in DOMAIN achalls :
        /\ Cardinality(EndPositions(k)) <= 1
        /\ \A e \in EndPositions(k) : \A j \in WaitPositions(k) : j <= e
        /\ \A l \in DOMAIN achalls :
               k < l => Before(WaitPositions(k), WaitPositions(l))
        /\ WaitPositions(k) # {} =>
               \A l \in 1..(k - 1) : EndPositions(l) # {}
    /\ PollPositions # {} \/ Interrupted # {} => pc \in {"wait", "done"}
    /\ pc = "wait" =>
        /\ i \in DOMAIN achalls
        /\ Len(responses) = i - 1
        /\ \A k \in DOMAIN achalls : EndPositions(k) # {} <=> k < i
    /\ pc \in {"wait", "done"} =>
        \A k \in DOMAIN responses : responses[k] = Owed(k)
    /\ pc = "done" =>
        /\ Len(responses) = Len(achalls)
        /\ \A k \in DOMAIN achalls : Cardinality(EndPositions(k)) = 1

\* two challenges: the wait of the first was interrupted, the second was
\* then polled until it verified, and perform returned both responses
C13_Witness ==
    /\ pc = "done"
    /\ Len(achalls) = 2
    /\ Interrupted = {1}
    /\ \E k \in DOMAIN trace : trace[k] = Event("poll", <<2, TRUE>>)
    /\ responses = <<Owed(1), Owed(2)>>

\* ------------------------------------------------------------------- C12
\* the ownership fix-up of this invocation has run
FixupOver == pc \in {"stage", "commit", "push", "wait", "done"}
\* the directories from the root down to the challenge directory, and the
\* entries inside the challenge directory
RootToChallenge(fsys) ==
    {q \in DOMAIN fsys :
        \/ IsPrefix(Resolve(root), q) /\ IsPrefix(q, Resolve(directory))
        \/ IsPrefix(Resolve(directory), q)}
\* the directory directly below the root on the way to the challenge directory
TopBelowRoot == Append(Resolve(root), URI_ROOT_PATH[1])
Sibling == <<"public", ".well-known", "security.txt">>

\* C12 as stated: after the fix-up every path from the root down to the
\* challenge directory and inside it belongs to the owner of the root, and
\* every other path that existed before the call has the owner it had.
C12_FixupOnlyRootToChallengePath ==
    FixupOver =>
        /\ \A q \in RootToChallenge(fs) : fs[q].owner = fs[Resolve(root)].owner
        /\ \A q \in (DOMAIN fs \cap DOMAIN fs0) \ RootToChallenge(fs) :
               fs[q].owner = fs0[q].owner

\* C12, amended: the fix-up gives the directory directly below the root on
\* the way to the challenge directory, and every file and directory beneath
\* it (pre-existing siblings of the challenge directory included), the
\* owner of the root; it changes nothing else of those entries and nothing
\* at all outside that subtree, the root itself included.
C12_FixupReownsSubtreeBelowRoot ==
    [][pc = "chown" =>
        /\ DOMAIN fs' = DOMAIN fs
        /\ \A q \in DOMAIN fs :
              fs'[q] = IF IsPrefix(TopBelowRoot, q)
                       THEN [fs[q] EXCEPT !.owner = fs[Resolve(root)].owner]
                       ELSE fs[q]]_vars

\* a fix-up run as root gave a sibling of the challenge directory, and the
\* challenge file written by root, to the owner of the root
C12_Witness ==
    /\ pc = "stage"
    /\ Sibling \in DOMAIN fs0
    /\ fs0[Sibling].owner = 0
    /\ fs[Sibling].owner = 1000
    /\ fs[Resolve(root)].owner = 1000
    /\ \A q \in Below(fs, directory) : fs[q].owner = 1000

\* ------------------------------------------------------------------- C14
\* one more failed poll of the current challenge
PollAgain == Poll /\ pc' = "wait" /\ i' = i /\ responses' = responses
\* the last entry of the log
LastEvent == trace[Len(trace)]

\* C14: the wait of a challenge ends only by a successful poll or by an
\* interrupt; however many polls have failed, one more failed poll is
\* possible (so the wait can go on forever); and when every wait is
\* eventually ended by the oracle or by an interrupt, a perform that is past
\* the push step eventually returns.
C14_WaitEndsOnlyBySuccessOrInterrupt ==
    /\ [](pc = "wait" => ENABLED PollAgain)
    /\ [][pc = "wait" /\ (pc' # "wait" \/ i' # i) =>
            /\ trace' # <<>>
            /\ trace'[Len(trace')] \in {Event("poll", <<i, TRUE>>),
                                        Event("interrupt", <<i, FALSE>>)}
            /\ i' = i + 1
            /\ pc' \in {"wait", "done"}]_vars
    /\ (pc = "wait") ~> (pc = "done")

\* perform returned after the oracle had refused the first challenge as
\* often as the log records and then accepted it
C14_Witness ==
    /\ pc = "done"
    /\ Cardinality({k \in WaitPositions(1) : trace[k] = Event("poll", <<1, FALSE>>)})
           = MaxPolls
    /\ \E k \in DOMAIN trace : trace[k] = Event("poll", <<1, TRUE>>)

\* ------------------------------------------------------------------- C15
WriteCommands == {"add", "commit", "push"}
\* the positions of the log at which git <sub> was executed
ExecPositions(sub) == {k \in 1..Len(trace) : IsGit(trace[k], {"exec"}, sub)}
\* git <sub> was the last command executed, and it failed
Failed(sub) ==
    /\ ExecPositions(sub) # {}
    /\ \A k \in DOMAIN trace : trace[k].op = "exec" =>
           \E e \in ExecPositions(sub) : k <= e
    /\ rc # 0
\* every challenge file of this invocation is on disk with its content
ChallengeFilesOnDisk ==
    \A k \in DOMAIN achalls :
        LET f == Append(Resolve(directory), "b64(" \o achalls[k].token \o ")")
        IN  /\ f \in DOMAIN fs
            /\ fs[f].content = <<"bytes", "b64(" \o achalls[k].token \o ")", ".",
                                 "thumbprint">>

\* C15: when git add, git commit or git push fails, perform raises the
\* failure at that step: nothing is done after the failed command (no
\* commit after a failed add, no push after a failed commit, no poll after
\* a failed push), no command is executed twice, nothing is returned, and
\* the challenge files written before stay on disk.
C15_WriteCommandFailureAborts ==
    \A sub \in WriteCommands :
        /\ Cardinality(ExecPositions(sub)) <= 1
        /\ Failed(sub) =>
            /\ pc = "raised"
            /\ err = CalledProcessError(rc)
            /\ ExecPositions(sub) = {Len(trace)}
            /\ sub = "add" => ~Stepped("commit")
            /\ sub \in {"add", "commit"} => ~Stepped("push")
            /\ PollPositions = {}
            /\ responses = <<>>
            /\ git.remoteTree = git0.remoteTree
            /\ ChallengeFilesOnDisk

\* each of the three commands failed in some invocation that had written
\* its challenge files: the push after a successful commit, ...
C15_Witness ==
    /\ Failed("push")
    /\ pc = "raised"
    /\ git.head # git0.head
    /\ Len(achalls) = 2
    /\ ChallengeFilesOnDisk
\* ... the commit with nothing to commit, and the add
C15_WitnessCommit == Failed("commit") /\ pc = "raised" /\ achalls # <<>>
C15_WitnessAdd == Failed("add") /\ pc = "raised" /\ achalls # <<>>

\* ------------------------------------------------------------------- C16
\* perform was called on a working copy in which an earlier perform had
\* committed its challenge files and the push of that commit had failed;
\* nothing else has touched the working copy since
UnpushedCommit0 ==
    /\ git0.head # BaseTree
    /\ git0.head # git0.remoteTree
    /\ git0.index = git0.head

\* C16: a perform called again after an earlier one aborted behind the
\* write phase (its commit made, its push failed) passes preflight without
\* any repair of the working copy: such a call fails in preflight only for
\* a cause outside the working copy, the remote not answering the update.
C16_RerunPassesPreflight ==
    (UnpushedCommit0 /\ pc = "raised" /\ ~PreflightPassed) =>
        /\ Ran("remote")
        /\ ~Ran("diff")
        /\ err = RemoteError(remote)

\* ------------------------------------------------------------------- C17
ExistsPositions == {k \in 1..Len(trace) : trace[k].op = "exists"}
\* the positions of the four checks of preflight, in the order of the claim
CheckPositions(n) ==
    CASE n = 1 -> ExistsPositions
      [] n = 2 -> ExecPositions("symbolic-ref")
      [] n = 3 -> ExecPositions("remote")
      [] n = 4 -> ExecPositions("diff")
\* the first check that fails on the working copy perform was called with,
\* 5 when none does (the remote update can still fail to reach the remote)
FirstFailing ==
    IF ~exists(fs0, root) THEN 1
    ELSE IF git0.checkedOut # branch THEN 2
    ELSE IF remote \notin git0.remotes THEN 3
    ELSE IF git0.index # FetchedRef(git0) THEN 4
    ELSE 5

\* C17: preflight checks root, branch, remote update and synchronization in
\* that order and stops at the first failure; the synchronization check is
\* made only after the remote update of the same invocation has succeeded;
\* every check is made at most once, and preflight neither checks out a
\* branch nor changes index or history.
C17_PreflightOrderedStopsAtFirstFailure ==
    /\ \A n \in 1..4 :
        /\ Cardinality(CheckPositions(n)) <= 1
        /\ \A m \in 1..4 : m < n =>
              /\ Before(CheckPositions(m), CheckPositions(n))
              /\ CheckPositions(n) # {} => CheckPositions(m) # {}
        /\ n > FirstFailing => CheckPositions(n) = {}
        /\ \A k \in CheckPositions(n) : k = n
    /\ Ran("diff") =>
        /\ remote \in git0.remotes
        /\ Ran("push") \/ git.tracking = FetchedRef(git0)
    /\ (pc = "raised" /\ ~PreflightPassed) =>
        /\ \A k \in DOMAIN trace : \E n \in 1..4 : k \in CheckPositions(n)
        /\ err.type = "PluginError" => CheckPositions(Len(trace)) # {}
    /\ PreflightPassed => \A n \in 1..4 : CheckPositions(n) = {n}
    /\ git.checkedOut = git0.checkedOut
    /\ ~PreflightPassed => git.index = git0.index /\ git.head = git0.head

\* preflight stopped at a remote update that could not reach a configured
\* remote: root and branch were checked before it, the synchronization
\* check was not made
C17_Witness ==
    /\ pc = "raised"
    /\ remote \in git0.remotes
    /\ FirstFailing = 5
    /\ Len(trace) = 3
    /\ CheckPositions(3) = {3}
    /\ rc # 0
    /\ err = RemoteError(remote)

\* ------------------------------------------------------------------- C18
\* C18: for every configured root, one written with a trailing slash
\* included, the parent walk of the ownership fix-up terminates (each test
\* of its loop either leaves the loop or goes on with a strictly shorter
\* path), it never holds a path that is not at or below the root, and the
\* directory it stops at has the root as its parent.
C18_ParentWalkTerminatesBelowRoot ==
    /\ pc = "chown_walk" =>
        /\ dirname(walk) = root \/ Len(dirname(walk)) < Len(walk)
        /\ IsPrefix(Resolve(root), Resolve(walk))
    /\ pc = "chown" =>
        /\ dirname(walk) = root
        /\ IsPrefix(Resolve(root), Resolve(walk))
        /\ Len(Resolve(walk)) = Len(Resolve(root)) + 1

\* ------------------------------------------------------------------- C19
\* the argument vectors of the commands this invocation ran or logged
Commands ==
    {trace[k].arg : k \in {j \in DOMAIN trace : trace[j].op \in {"exec", "would run"}}}
Privileged == euid = 0
IdentityPresent == sudo_user # NoUser

\* C19: a command is wrapped to run as the invoking user iff the effective
\* user is privileged and the environment names an invoking user; in every
\* other case the command is left as it is and building it raises nothing.
C19_WrappedIffPrivilegedAndIdentity ==
    /\ \A argv \in Commands :
          IF Privileged /\ IdentityPresent
          THEN SubSeq(argv, 1, 4) = <<"sudo", "-u", sudo_user, "git">>
          ELSE argv[1] = "git"
    /\ err.type # "KeyError"
====
